---- MODULE Spec2Model ----
(***************************************************************************)
(* A model of newsstand.py: the poll loop of main(), the seen ledger, the  *)
(* per-cycle config reload, the cold-start lookback gate, topic matching,  *)
(* link canonicalisation and the two notification sinks.                   *)
(***************************************************************************)
EXTENDS Integers, Sequences, FiniteSets, TLC

VARIABLES
    env,                \* the module-level settings read from the environment
    pc,                 \* position of main()
    now,                \* the wall clock, time.time()
    cycle,              \* number of completed sleeps
    seen_file,          \* SEEN_FILE on disk
    seen,               \* main(): seen
    feeds,              \* main(): feeds
    features,           \* main(): features
    feature_patterns,   \* main(): feature_patterns
    use_slack,          \* main(): use_slack
    use_generic,        \* main(): use_generic
    apply_lookback,     \* main(): apply_lookback
    lookback_threshold, \* main(): lookback_threshold
    feed_idx,           \* position of "for feed_url in feeds"
    entries,            \* feed.entries of the feed being processed
    entry_idx,          \* position of "for entry in feed.entries"
    ev,                 \* observation: what the last step did
    hist                \* observation: what has happened in the run so far

vars == <<env, pc, now, cycle, seen_file, seen, feeds, features, feature_patterns,
          use_slack, use_generic, apply_lookback, lookback_threshold,
          feed_idx, entries, entry_idx, ev, hist>>

----------------------------------------------------------------------------
(* Bounds of the model *)

\* number of sleeps the model follows
MaxCycles == 1

----------------------------------------------------------------------------
(* Program constants *)

INITIAL_LOOKBACK_DAYS == 3
POLL_INTERVAL == 300
DaySeconds == 86400

\* the clock value at which the model starts main()
StartTime == 10 * DaySeconds

----------------------------------------------------------------------------
(* Python values *)

\* None, and the result of dict.get on a missing key
None == "None"
\* a missing time struct
NoTs == -1

Range(s) == {s[i] : i \in 1..Len(s)}

\* truth value of a string-or-None
Truthy(x) == x # None /\ x # ""

\* a or b
PyOr(a, b) == IF Truthy(a) THEN a ELSE b

\* a or b, for time structs
TsOr(a, b) == IF a # NoTs THEN a ELSE b

\* entry.get(key, default) for the text fields
Get(e, key, default) == IF key \in e.keys THEN e[key] ELSE default

----------------------------------------------------------------------------
(* The feed entries the model draws from (feedparser's entry dicts) *)

Cutoff0 == StartTime - INITIAL_LOOKBACK_DAYS * DaySeconds

Entry(keys, id, link, title, summary, published, updated) ==
    [keys |-> keys, id |-> id, link |-> link, title |-> title, summary |-> summary,
     published_parsed |-> published, updated_parsed |-> updated]

\* id, published exactly at the first cycle's cutoff: inside the window in the
\* first cycle, outside it in every later one
eB == Entry({"id", "link", "title", "summary", "published_parsed"}, "b", "http://x/b",
            <<"A", "L", "p", "r">>, <<"x">>, Cutoff0, NoTs)
\* no id, a redirect-style link, no published time, updated inside the window
eC == Entry({"link", "title", "updated_parsed"}, None, "http://news.google.com/c",
            <<"C", "a", "m">>, <<>>, NoTs, StartTime - (INITIAL_LOOKBACK_DAYS - 1) * DaySeconds)
\* no time struct at all, no title
eD == Entry({"id", "link", "summary"}, "d", "http://x/d",
            <<>>, <<"c", "a", "m", " ", "a", "l", "p", "r">>, NoTs, NoTs)
\* published before the window, matches no topic
eE == Entry({"id", "link", "title", "summary", "published_parsed", "updated_parsed"}, "e", "http://x/e",
            <<"x">>, <<"a", "l">>, StartTime - (INITIAL_LOOKBACK_DAYS + 1) * DaySeconds, StartTime)
\* neither id nor link
eN == Entry({"title", "published_parsed"}, None, None,
            <<"a", "l", "p", "r">>, <<>>, StartTime, NoTs)

Entries == {eB, eC, eD, eE, eN}

\* the links that contain "news.google."
GoogleLinks == {"http://news.google.com/c"}

\* what feedparser.parse(url) returns when it does not raise
FeedEntries(url) ==
    CASE url = "f1" -> <<eB, eN>>
      [] url = "f2" -> <<eD, eE, eC, eB>>
      [] OTHER -> <<>>

\* the order sorted() gives the identifiers of the model
GuidRank(g) ==
    CASE g = "b" -> 1
      [] g = "d" -> 2
      [] g = "e" -> 3
      [] g = "http://news.google.com/c" -> 4
      [] g = "z" -> 5
      [] OTHER -> 6

----------------------------------------------------------------------------
(* Seen ledger *)

RECURSIVE Sorted(_)
Sorted(S) ==
    IF S = {} THEN <<>>
    ELSE LET m == CHOOSE x \in S : \A y \in S : GuidRank(x) <= GuidRank(y)
         IN <<m>> \o Sorted(S \ {m})

\* a ledger file: absent, not parseable, or a JSON array of strings
NoFile == [exists |-> FALSE, valid |-> FALSE, items |-> <<>>]
CorruptFile == [exists |-> TRUE, valid |-> FALSE, items |-> <<>>]
JsonFile(items) == [exists |-> TRUE, valid |-> TRUE, items |-> items]

load_seen(file) ==
    IF file.exists /\ file.valid THEN Range(file.items) ELSE {}

\* a bug: the last identifier of the sorted list is not written
save_seen_DropsLast(s) ==
    JsonFile(IF s = {} THEN <<>> ELSE SubSeq(Sorted(s), 1, Cardinality(s) - 1))

\* the file save_seen(seen) leaves when write_text succeeds
save_seen(s) == JsonFile(Sorted(s))

----------------------------------------------------------------------------
(* Config *)

pAlpr == <<"a", "l", "p", "r">>
pCam == <<"C", "A", "M">>
pBad == <<"(">>

Topic(name, patterns) == [topic |-> name, patterns |-> patterns]

ConfigFile(readable, json, feeds_ok, features_ok, fs, ft) ==
    [readable |-> readable, json |-> json, feeds_is_list |-> feeds_ok,
     features_is_dict |-> features_ok, feeds |-> fs, features |-> ft]

cfgA == ConfigFile(TRUE, TRUE, TRUE, TRUE, <<"f1", "f2">>, <<Topic("alpr", <<pAlpr>>)>>)
cfgB == ConfigFile(TRUE, TRUE, TRUE, TRUE, <<"f2">>,
                   <<Topic("cam", <<pCam>>), Topic("alpr", <<pCam, pAlpr>>)>>)
cfgBadPattern == ConfigFile(TRUE, TRUE, TRUE, TRUE, <<"f2">>,
                            <<Topic("cam", <<pCam>>), Topic("bad", <<pBad>>)>>)
cfgUnreadable == ConfigFile(FALSE, FALSE, FALSE, FALSE, <<>>, <<>>)
cfgBadJson == ConfigFile(TRUE, FALSE, FALSE, FALSE, <<>>, <<>>)
cfgFeedsNotList == ConfigFile(TRUE, TRUE, FALSE, TRUE, <<>>, <<Topic("alpr", <<pAlpr>>)>>)
cfgFeaturesNotDict == ConfigFile(TRUE, TRUE, TRUE, FALSE, <<"f2">>, <<>>)

ConfigFiles == {cfgA, cfgB, cfgBadPattern, cfgUnreadable, cfgBadJson,
                cfgFeedsNotList, cfgFeaturesNotDict}

\* load_config(): raises, or returns (feeds, features)
load_config(file) ==
    IF ~file.readable \/ ~file.json
    THEN [ok |-> FALSE, feeds |-> <<>>, features |-> <<>>]
    ELSE IF ~(file.feeds_is_list /\ file.features_is_dict)
    THEN [ok |-> FALSE, feeds |-> <<>>, features |-> <<>>]
    ELSE [ok |-> TRUE, feeds |-> file.feeds, features |-> file.features]

\* case folding of re.I
Lower(c) ==
    CASE c = "A" -> "a"
      [] c = "C" -> "c"
      [] c = "L" -> "l"
      [] c = "M" -> "m"
      [] c = "P" -> "p"
      [] c = "R" -> "r"
      [] OTHER -> c

Fold(s) == [i \in 1..Len(s) |-> Lower(s[i])]

\* re.compile(p, re.I) raises re.error on a malformed pattern
CompileOk(p) == "(" \notin Range(p)
Compile(p) == [pattern |-> p, folded |-> Fold(p)]

\* {k: [re.compile(p, re.I) for p in v] for k, v in features.items()}
CompileAllOk(ft) == \A i \in 1..Len(ft) : \A j \in 1..Len(ft[i].patterns) : CompileOk(ft[i].patterns[j])
CompileAll(ft) ==
    [i \in 1..Len(ft) |->
        Topic(ft[i].topic, [j \in 1..Len(ft[i].patterns) |-> Compile(ft[i].patterns[j])])]

----------------------------------------------------------------------------
(* Topic matching *)

\* p.search(text)
Search(p, text) ==
    LET t == Fold(text)
        n == Len(p.folded)
    IN \E i \in 1..(Len(t) - n + 1) : SubSeq(t, i, i + n - 1) = p.folded

SearchText(e) == Get(e, "title", <<>>) \o <<" ">> \o Get(e, "summary", <<>>)

\* a bug: the loop over the topics ends at the first hit
RECURSIVE Hits_FirstOnly(_, _, _)
Hits_FirstOnly(patterns, text, i) ==
    IF i > Len(patterns) THEN <<>>
    ELSE IF \E j \in 1..Len(patterns[i].patterns) : Search(patterns[i].patterns[j], text)
    THEN <<patterns[i].topic>>
    ELSE Hits_FirstOnly(patterns, text, i + 1)

RECURSIVE Hits(_, _, _)
Hits(patterns, text, i) ==
    IF i > Len(patterns) THEN <<>>
    ELSE (IF \E j \in 1..Len(patterns[i].patterns) : Search(patterns[i].patterns[j], text)
          THEN <<patterns[i].topic>> ELSE <<>>) \o Hits(patterns, text, i + 1)

\* article_matches(entry, feature_patterns): (bool(hits), hits)
article_matches(e, patterns) ==
    LET hits == Hits(patterns, SearchText(e), 1)
    IN [matched |-> hits # <<>>, topics |-> hits]

----------------------------------------------------------------------------
(* Link canonicalisation *)

\* what gnewsdecoder(link, interval=1) can do
DecodeOutcomes == {"decoded", "refused", "raised"}

DecodedUrl(link) == IF link = "http://news.google.com/c" THEN "http://y/c" ELSE "http://y/other"

\* a bug: no fallback to the entry's link when the decoding call fails
original_link_NoFallback(e, outcome) ==
    LET link == Get(e, "link", "")
    IN IF link \notin GoogleLinks THEN link
       ELSE IF outcome = "decoded" THEN DecodedUrl(link)
       ELSE None

\* original_link(entry), given what the decoding call does
original_link(e, outcome) ==
    LET link == Get(e, "link", "")
    IN IF link \notin GoogleLinks THEN link
       ELSE IF outcome = "decoded" THEN DecodedUrl(link)
       ELSE Get(e, "link", "")

----------------------------------------------------------------------------
(* Startup: the sinks *)

Env(slack_flag, webhook_url, bot_token, channel_id, generic_flag, generic_url) ==
    [USE_SLACK_WEBHOOK |-> slack_flag, SLACK_WEBHOOK_URL |-> webhook_url,
     SLACK_BOT_TOKEN |-> bot_token, SLACK_CHANNEL_ID |-> channel_id,
     USE_GENERIC_WEBHOOK |-> generic_flag, GENERIC_WEBHOOK_URL |-> generic_url]

\* each setting is set (TRUE) or unset (FALSE)
Envs == {Env(a, b, c, d, e, f) : a \in BOOLEAN, b \in BOOLEAN, c \in BOOLEAN,
                                 d \in BOOLEAN, e \in BOOLEAN, f \in BOOLEAN}

\* the settings the poll loop is followed under: one of each kind of sink set-up,
\* and one of each fatal one
LoopEnvs == {Env(TRUE, TRUE, FALSE, FALSE, TRUE, TRUE),
             Env(TRUE, FALSE, TRUE, TRUE, FALSE, TRUE),
             Env(TRUE, TRUE, TRUE, FALSE, TRUE, TRUE),
             Env(FALSE, TRUE, FALSE, FALSE, TRUE, TRUE),
             Env(TRUE, FALSE, FALSE, FALSE, FALSE, FALSE),
             Env(TRUE, TRUE, FALSE, FALSE, TRUE, FALSE),
             Env(FALSE, TRUE, TRUE, TRUE, FALSE, FALSE)}

UseSlack(v) == v.USE_SLACK_WEBHOOK /\ (v.SLACK_WEBHOOK_URL \/ v.SLACK_BOT_TOKEN)
UseGeneric(v) == v.USE_GENERIC_WEBHOOK /\ v.GENERIC_WEBHOOK_URL

\* the RuntimeErrors main() raises before the loop
StartupFatal(v) ==
    \/ v.USE_GENERIC_WEBHOOK /\ ~v.GENERIC_WEBHOOK_URL
    \/ ~(UseSlack(v) \/ UseGeneric(v))

\* POST = post_via_bot_token if SLACK_BOT_TOKEN else post_via_webhook; each raises
\* before sending when its settings are missing
PostCanSend(v) ==
    IF v.SLACK_BOT_TOKEN THEN v.SLACK_BOT_TOKEN /\ v.SLACK_CHANNEL_ID
    ELSE v.SLACK_WEBHOOK_URL

----------------------------------------------------------------------------
(* The steps of one entry *)

\* guid = entry.get("id") or entry.get("link")
Guid(e) == PyOr(Get(e, "id", None), Get(e, "link", None))

\* a bug: the gate applied in every cycle
ApplyLookback_Always(s) == TRUE

\* apply_lookback = len(seen) == 0
ApplyLookback(s) == Cardinality(s) = 0

\* lookback_threshold = time.time() - INITIAL_LOOKBACK_DAYS * 86400
LookbackThreshold(t) == t - INITIAL_LOOKBACK_DAYS * DaySeconds

\* a bug: <= in place of <
Gate_Inclusive(apply, e, threshold) ==
    IF ~apply THEN "off"
    ELSE LET ts == TsOr(Get(e, "published_parsed", NoTs), Get(e, "updated_parsed", NoTs))
         IN IF ts = NoTs THEN "notime"
            ELSE IF ts <= threshold THEN "old"
            ELSE "pass"

\* the lookback gate: "off", or why the entry is held back, or "pass"
Gate(apply, e, threshold) ==
    IF ~apply THEN "off"
    ELSE LET ts == TsOr(Get(e, "published_parsed", NoTs), Get(e, "updated_parsed", NoTs))
         IN IF ts = NoTs THEN "notime"
            ELSE IF ts < threshold THEN "old"
            ELSE "pass"

\* a bug: the seen check left out
Skip_NoSeenCheck(guid, s) == ~Truthy(guid)

\* a bug: an entry with no identifier goes on to the gate
Skip_OnlySeen(guid, s) == guid \in s

\* if not guid or guid in seen: continue
Skip(guid, s) == ~Truthy(guid) \/ guid \in s

\* a bug: an entry that matches no topic is passed over without seen.add
MarkSeen_NotNonmatch(outcome, ok) ==
    CASE outcome = "gated" -> TRUE
      [] outcome = "matched" -> ok
      [] OTHER -> FALSE

\* whether the pass over an entry ends in seen.add(guid): always for an entry the
\* gate holds back and for one that matches no topic, and for a matched one when ok
MarkSeen(outcome, ok) ==
    CASE outcome = "gated" -> TRUE
      [] outcome = "nonmatch" -> TRUE
      [] outcome = "matched" -> ok
      [] OTHER -> FALSE

\* a bug: the set replaced instead of added to
SeenAdd_Replace(s, guid) == {guid}

\* seen.add(guid)
SeenAdd(s, guid) == s \cup {guid}

\* a bug: elif, the generic sink tried only when the chat sink did not succeed
GenericAttempted_Elif(ug, slack_ok) == ug /\ ~slack_ok

\* the attempt on the generic sink is made whatever the chat sink did
GenericAttempted(ug, slack_ok) == ug

\* a bug: ok set whatever the sinks did
DeliveryOk_Always(us, ug, slack_ok, generic_ok) == TRUE

\* a bug: every enabled sink must succeed
DeliveryOk_All(us, ug, slack_ok, generic_ok) ==
    (us \/ ug) /\ (us => slack_ok) /\ (ug => generic_ok)

\* ok after both sinks
DeliveryOk(us, ug, slack_ok, generic_ok) == (us /\ slack_ok) \/ (ug /\ generic_ok)

\* what a step did. For a pass over an entry: its identifier, whether it was passed
\* over at the seen check, what the gate said, whether article_matches and
\* original_link ran, the requests made to each sink and whether the sink accepted,
\* and whether the pass ended in seen.add; decode is what the decoding call did when
\* original_link made it
NoEv == [kind |-> "none", guid |-> None, skipped |-> FALSE, gate |-> "off",
         evaluated |-> FALSE, matched |-> FALSE, topics |-> <<>>, canon |-> FALSE,
         decode |-> "none", link |-> None, slack_attempts |-> 0, generic_attempts |-> 0,
         slack_ok |-> FALSE, generic_ok |-> FALSE, ok |-> FALSE, added |-> FALSE]

StepEv(kind) == [NoEv EXCEPT !.kind = kind]

\* the body of "for entry in feed.entries" for one entry: what it does, and whether
\* it ends in seen.add(guid). slack_res, generic_res: whether the sink accepts a
\* request sent to it; decode: what gnewsdecoder does
Examine(e, s, apply, threshold, patterns, us, ug, post_can_send, slack_res, generic_res, decode) ==
    LET guid == Guid(e)
        base == [NoEv EXCEPT !.kind = "entry", !.guid = guid]
        gate == Gate(apply, e, threshold)
        m == article_matches(e, patterns)
        slack_ok == us /\ post_can_send /\ slack_res
        generic_ok == GenericAttempted(ug, slack_ok) /\ generic_res
        ok == DeliveryOk(us, GenericAttempted(ug, slack_ok), slack_ok, generic_ok)
    IN IF Skip(guid, s)
       THEN [base EXCEPT !.skipped = TRUE]
       ELSE IF gate \in {"notime", "old"}
       THEN [base EXCEPT !.gate = gate, !.added = MarkSeen("gated", FALSE)]
       ELSE IF ~m.matched
       THEN [base EXCEPT !.gate = gate, !.evaluated = TRUE,
                         !.added = MarkSeen("nonmatch", FALSE)]
       ELSE [base EXCEPT !.gate = gate, !.evaluated = TRUE, !.matched = TRUE,
                         !.topics = m.topics, !.canon = TRUE,
                         !.decode = IF Get(e, "link", "") \in GoogleLinks THEN decode
                                    ELSE "not_called",
                         !.link = original_link(e, decode),
                         !.slack_attempts = IF us THEN 1 ELSE 0,
                         !.generic_attempts = IF GenericAttempted(ug, slack_ok) THEN 1 ELSE 0,
                         !.slack_ok = slack_ok, !.generic_ok = generic_ok,
                         !.ok = ok, !.added = MarkSeen("matched", ok)]

----------------------------------------------------------------------------
(* The state machine of main() *)

\* the ledger files main() may find at startup
StartFiles == {NoFile, CorruptFile, JsonFile(<<"z">>)}

\* what the run has done so far: the identifiers load_seen() returned, those the
\* gate held back, those found to match no topic, those a sink accepted; whether
\* the cycle started with an empty seen set; the entries whose delivery failed on
\* every sink in this cycle and are still unseen (failed_cur), and those of the
\* previous cycle when the reload left feeds and patterns as they were
\* (failed_prev); the number of saves and the set the last one wrote
NoHist == [loaded |-> {}, suppressed |-> {}, nonmatch |-> {}, delivered |-> {},
           cold |-> FALSE, failed_prev |-> {}, failed_cur |-> {},
           n_saves |-> 0, saved |-> {}]

Init ==
    /\ env \in LoopEnvs
    /\ pc = "start"
    /\ now = StartTime
    /\ cycle = 0
    /\ seen_file \in StartFiles
    /\ seen = {}
    /\ feeds = <<>>
    /\ features = <<>>
    /\ feature_patterns = <<>>
    /\ use_slack = FALSE
    /\ use_generic = FALSE
    /\ apply_lookback = FALSE
    /\ lookback_threshold = 0
    /\ feed_idx = 0
    /\ entries = <<>>
    /\ entry_idx = 0
    /\ ev = NoEv
    /\ hist = NoHist

\* main() up to the loop: a RuntimeError, or a failing load_config() or re.compile,
\* ends the process
StartupFails ==
    /\ pc = "start"
    /\ \E file \in ConfigFiles :
          \/ StartupFatal(env)
          \/ ~load_config(file).ok
          \/ ~CompileAllOk(load_config(file).features)
    /\ pc' = "fatal"
    /\ use_slack' = UseSlack(env)
    /\ ev' = StepEv("fatal")
    /\ UNCHANGED <<env, now, cycle, seen_file, seen, feeds, features, feature_patterns,
                   use_generic, apply_lookback, lookback_threshold,
                   feed_idx, entries, entry_idx, hist>>

Startup ==
    /\ pc = "start"
    /\ ~StartupFatal(env)
    /\ \E file \in ConfigFiles :
          LET c == load_config(file)
          IN /\ c.ok
             /\ CompileAllOk(c.features)
             /\ feeds' = c.feeds
             /\ features' = c.features
             /\ feature_patterns' = CompileAll(c.features)
    /\ use_slack' = UseSlack(env)
    /\ use_generic' = UseGeneric(env)
    /\ seen' = load_seen(seen_file)
    /\ hist' = [hist EXCEPT !.loaded = load_seen(seen_file)]
    /\ pc' = "reload"
    /\ ev' = StepEv("startup")
    /\ UNCHANGED <<env, now, cycle, seen_file, apply_lookback, lookback_threshold,
                   feed_idx, entries, entry_idx>>

\* a bug: a failed load clears the config
Reloaded_ResetOnFailure(file, fs, ft, fp) ==
    LET c == load_config(file)
    IN IF ~c.ok
       THEN [feeds |-> <<>>, features |-> <<>>, feature_patterns |-> <<>>,
             result |-> "reload_load_failed"]
       ELSE IF ~CompileAllOk(c.features)
       THEN [feeds |-> c.feeds, features |-> c.features, feature_patterns |-> fp,
             result |-> "reload_compile_failed"]
       ELSE [feeds |-> c.feeds, features |-> c.features,
             feature_patterns |-> CompileAll(c.features), result |-> "reload_ok"]

\* the config in effect after the reload at the top of the loop: (feeds, features,
\* feature_patterns), and how the reload ended
Reloaded(file, fs, ft, fp) ==
    LET c == load_config(file)
    IN IF ~c.ok
       THEN [feeds |-> fs, features |-> ft, feature_patterns |-> fp, result |-> "reload_load_failed"]
       ELSE IF ~CompileAllOk(c.features)
       THEN [feeds |-> c.feeds, features |-> c.features, feature_patterns |-> fp,
             result |-> "reload_compile_failed"]
       ELSE [feeds |-> c.feeds, features |-> c.features,
             feature_patterns |-> CompileAll(c.features), result |-> "reload_ok"]

\* top of the loop: reload the config, decide the lookback
ReloadConfig ==
    /\ pc = "reload"
    /\ \E file \in ConfigFiles :
          LET r == Reloaded(file, feeds, features, feature_patterns)
          IN /\ feeds' = r.feeds
             /\ features' = r.features
             /\ feature_patterns' = r.feature_patterns
             /\ ev' = StepEv(r.result)
             /\ hist' = [hist EXCEPT !.cold = (seen = {}),
                                     !.failed_prev =
                                        IF r.feeds = feeds /\ r.feature_patterns = feature_patterns
                                        THEN hist.failed_cur ELSE {},
                                     !.failed_cur = {}]
    /\ apply_lookback' = ApplyLookback(seen)
    /\ lookback_threshold' = IF ApplyLookback(seen) THEN LookbackThreshold(now)
                             ELSE lookback_threshold
    /\ feed_idx' = 1
    /\ entries' = <<>>
    /\ entry_idx' = 0
    /\ pc' = "feed"
    /\ UNCHANGED <<env, now, cycle, seen_file, seen, use_slack, use_generic>>

\* a bug: a failed fetch ends the cycle
FetchFeedFails_Break ==
    /\ pc = "feed"
    /\ feed_idx <= Len(feeds)
    /\ feed_idx' = 0
    /\ pc' = "sleep"
    /\ ev' = StepEv("fetch_failed")
    /\ UNCHANGED <<env, now, cycle, seen_file, seen, feeds, features, feature_patterns,
                   use_slack, use_generic, apply_lookback, lookback_threshold,
                   entries, entry_idx, hist>>

\* fetch_feed(feed_url) raises: next feed
FetchFeedFails ==
    /\ pc = "feed"
    /\ feed_idx <= Len(feeds)
    /\ feed_idx' = feed_idx + 1
    /\ ev' = StepEv("fetch_failed")
    /\ UNCHANGED <<env, pc, now, cycle, seen_file, seen, feeds, features, feature_patterns,
                   use_slack, use_generic, apply_lookback, lookback_threshold,
                   entries, entry_idx, hist>>

FetchFeed ==
    /\ pc = "feed"
    /\ feed_idx <= Len(feeds)
    /\ LET es == FeedEntries(feeds[feed_idx])
       IN IF es = <<>>
          THEN /\ feed_idx' = feed_idx + 1
               /\ UNCHANGED <<pc, entries, entry_idx>>
          ELSE /\ entries' = es
               /\ entry_idx' = 1
               /\ pc' = "entry"
               /\ UNCHANGED feed_idx
    /\ ev' = StepEv("fetch")
    /\ UNCHANGED <<env, now, cycle, seen_file, seen, feeds, features, feature_patterns,
                   use_slack, use_generic, apply_lookback, lookback_threshold, hist>>

\* the entry the loop is at
CurEntry == entries[entry_idx]

\* one pass of the body of "for entry in feed.entries"
ProcessEntry ==
    /\ pc = "entry"
    /\ \E slack_res \in BOOLEAN, generic_res \in BOOLEAN, decode \in DecodeOutcomes :
          LET r == Examine(CurEntry, seen, apply_lookback, lookback_threshold,
                           feature_patterns, use_slack, use_generic, PostCanSend(env),
                           slack_res, generic_res, decode)
              failed == r.matched /\ ~r.slack_ok /\ ~r.generic_ok
          IN /\ ev' = r
             /\ seen' = IF r.added THEN SeenAdd(seen, r.guid) ELSE seen
             /\ hist' = [hist EXCEPT
                   !.suppressed = IF r.gate \in {"notime", "old"} /\ r.added THEN @ \cup {r.guid} ELSE @,
                   !.nonmatch = IF r.evaluated /\ ~r.matched /\ r.added THEN @ \cup {r.guid} ELSE @,
                   !.delivered = IF r.slack_ok \/ r.generic_ok THEN @ \cup {r.guid} ELSE @,
                   !.failed_cur = IF failed THEN @ \cup {CurEntry}
                                  ELSE IF r.added THEN {x \in @ : Guid(x) # r.guid}
                                  ELSE @]
    /\ IF entry_idx < Len(entries)
       THEN /\ entry_idx' = entry_idx + 1
            /\ UNCHANGED <<pc, feed_idx>>
       ELSE /\ entry_idx' = 0
            /\ feed_idx' = feed_idx + 1
            /\ pc' = "feed"
    /\ UNCHANGED <<env, now, cycle, seen_file, feeds, features, feature_patterns,
                   use_slack, use_generic, apply_lookback, lookback_threshold, entries>>

\* a bug: the outer handler starts again from the ledger file
CycleAborts_ReloadSeen ==
    /\ pc = "feed"
    /\ feed_idx <= Len(feeds)
    /\ pc' = "sleep"
    /\ feed_idx' = 0
    /\ seen' = load_seen(seen_file)
    /\ ev' = StepEv("aborted")
    /\ UNCHANGED <<env, now, cycle, seen_file, feeds, features, feature_patterns,
                   use_slack, use_generic, apply_lookback, lookback_threshold,
                   entries, entry_idx, hist>>

\* iterating the fetched feed raises, outside the try around fetch_feed: the
\* exception reaches the outer handler, which logs it and goes to sleep
CycleAborts ==
    /\ pc = "feed"
    /\ feed_idx <= Len(feeds)
    /\ pc' = "sleep"
    /\ feed_idx' = 0
    /\ ev' = StepEv("aborted")
    /\ UNCHANGED <<env, now, cycle, seen_file, seen, feeds, features, feature_patterns,
                   use_slack, use_generic, apply_lookback, lookback_threshold,
                   entries, entry_idx, hist>>

\* a bug: the save is made before the last feed
SaveSeen_Early ==
    /\ pc = "feed"
    /\ feed_idx >= Len(feeds)
    /\ seen_file' = save_seen(seen)
    /\ hist' = [hist EXCEPT !.n_saves = @ + 1, !.saved = seen]
    /\ pc' = "sleep"
    /\ feed_idx' = 0
    /\ ev' = StepEv("saved")
    /\ UNCHANGED <<env, now, cycle, seen, feeds, features, feature_patterns,
                   use_slack, use_generic, apply_lookback, lookback_threshold,
                   entries, entry_idx>>

\* save_seen(seen) after the last feed
SaveSeen ==
    /\ pc = "feed"
    /\ feed_idx > Len(feeds)
    /\ seen_file' = save_seen(seen)
    /\ hist' = [hist EXCEPT !.n_saves = @ + 1, !.saved = seen]
    /\ pc' = "sleep"
    /\ feed_idx' = 0
    /\ ev' = StepEv("saved")
    /\ UNCHANGED <<env, now, cycle, seen, feeds, features, feature_patterns,
                   use_slack, use_generic, apply_lookback, lookback_threshold,
                   entries, entry_idx>>

\* a bug: save_seen called outside the try, so that its exception ends the process
SaveSeenFails_Crash ==
    /\ pc = "feed"
    /\ feed_idx > Len(feeds)
    /\ seen_file' \in {seen_file, CorruptFile}
    /\ UNCHANGED hist
    /\ pc' = "crashed"
    /\ feed_idx' = 0
    /\ ev' = StepEv("save_failed")
    /\ UNCHANGED <<env, now, cycle, seen, feeds, features, feature_patterns,
                   use_slack, use_generic, apply_lookback, lookback_threshold,
                   entries, entry_idx>>

\* write_text raises: the file is as it was, or was truncated before the failure
SaveSeenFails ==
    /\ pc = "feed"
    /\ feed_idx > Len(feeds)
    /\ seen_file' \in {seen_file, CorruptFile}
    /\ UNCHANGED hist
    /\ pc' = "sleep"
    /\ feed_idx' = 0
    /\ ev' = StepEv("save_failed")
    /\ UNCHANGED <<env, now, cycle, seen, feeds, features, feature_patterns,
                   use_slack, use_generic, apply_lookback, lookback_threshold,
                   entries, entry_idx>>

\* time.sleep(POLL_INTERVAL) returns
Sleep ==
    /\ pc = "sleep"
    /\ cycle < MaxCycles
    /\ now' = now + POLL_INTERVAL
    /\ cycle' = cycle + 1
    /\ pc' = "reload"
    /\ ev' = StepEv("slept")
    /\ UNCHANGED <<env, seen_file, seen, feeds, features, feature_patterns,
                   use_slack, use_generic, apply_lookback, lookback_threshold,
                   feed_idx, entries, entry_idx, hist>>

\* KeyboardInterrupt during the sleep: break
Interrupt ==
    /\ pc = "sleep"
    /\ pc' = "done"
    /\ ev' = StepEv("interrupted")
    /\ UNCHANGED <<env, now, cycle, seen_file, seen, feeds, features, feature_patterns,
                   use_slack, use_generic, apply_lookback, lookback_threshold,
                   feed_idx, entries, entry_idx, hist>>

Next ==
    \/ StartupFails
    \/ Startup
    \/ ReloadConfig
    \/ FetchFeedFails
    \/ FetchFeed
    \/ ProcessEntry
    \/ CycleAborts
    \/ SaveSeen
    \/ SaveSeenFails
    \/ Sleep
    \/ Interrupt

Spec == Init /\ [][Next]_vars

\* the loop with both sinks enabled and no ledger file at startup
FairInit ==
    /\ Init
    /\ env = Env(TRUE, TRUE, FALSE, FALSE, TRUE, TRUE)
    /\ seen_file = NoFile

\* the loop runs on: every call it makes returns or raises, and the sleep ends
FairSpec == FairInit /\ [][Next]_vars /\ WF_vars(Next)

----------------------------------------------------------------------------
(* save_seen and load_seen on their own *)

\* the identifiers the seen set is drawn from
LedgerGuids == {"b", "d", "e", "http://news.google.com/c", "z"}

\* any seen set in memory, any ledger file on disk
LedgerInit ==
    /\ env = Env(TRUE, TRUE, FALSE, FALSE, TRUE, TRUE)
    /\ pc = "ledger"
    /\ now = StartTime
    /\ cycle = 0
    /\ seen_file \in StartFiles
    /\ seen \in SUBSET LedgerGuids
    /\ feeds = <<>>
    /\ features = <<>>
    /\ feature_patterns = <<>>
    /\ use_slack = FALSE
    /\ use_generic = FALSE
    /\ apply_lookback = FALSE
    /\ lookback_threshold = 0
    /\ feed_idx = 0
    /\ entries = <<>>
    /\ entry_idx = 0
    /\ ev = NoEv
    /\ hist = NoHist

\* save_seen(seen), after which the process ends and its memory is gone
LedgerSave ==
    /\ pc = "ledger"
    /\ seen_file' = save_seen(seen)
    /\ hist' = [hist EXCEPT !.n_saves = @ + 1, !.saved = seen]
    /\ seen' = {}
    /\ pc' = "ledger_saved"
    /\ ev' = StepEv("saved")
    /\ UNCHANGED <<env, now, cycle, feeds, features, feature_patterns, use_slack,
                   use_generic, apply_lookback, lookback_threshold, feed_idx, entries,
                   entry_idx>>

\* seen = load_seen() in a new process, on the file as it is
LedgerLoad ==
    /\ pc \in {"ledger", "ledger_saved"}
    /\ seen' = load_seen(seen_file)
    /\ hist' = [hist EXCEPT !.loaded = load_seen(seen_file)]
    /\ pc' = "ledger_loaded"
    /\ ev' = StepEv("loaded")
    /\ UNCHANGED <<env, now, cycle, seen_file, feeds, features, feature_patterns,
                   use_slack, use_generic, apply_lookback, lookback_threshold, feed_idx,
                   entries, entry_idx>>

LedgerNext == LedgerSave \/ LedgerLoad

LedgerSpec == LedgerInit /\ [][LedgerNext]_vars

----------------------------------------------------------------------------
(* article_matches on its own *)

\* the topics of a config: one pattern, two patterns, none
MatchTopics == {Topic("cam", <<pCam>>), Topic("alpr", <<pAlpr>>),
                Topic("both", <<pCam, pAlpr>>), Topic("none", <<>>)}

\* number of topics of a config
MaxTopics == 3

\* features.items(): the topics of a config, each name once, in any order
MatchBanks ==
    {b \in UNION {[1..n -> MatchTopics] : n \in 0..MaxTopics} :
        \A i, j \in 1..Len(b) : b[i].topic = b[j].topic => i = j}

\* any entry, any compiled config
MatchInit ==
    /\ env = Env(TRUE, TRUE, FALSE, FALSE, TRUE, TRUE)
    /\ pc = "match"
    /\ now = StartTime
    /\ cycle = 0
    /\ seen_file = NoFile
    /\ seen = {}
    /\ feeds = <<>>
    /\ \E b \in MatchBanks : features = b /\ feature_patterns = CompileAll(b)
    /\ use_slack = FALSE
    /\ use_generic = FALSE
    /\ apply_lookback = FALSE
    /\ lookback_threshold = 0
    /\ feed_idx = 0
    /\ \E e \in Entries : entries = <<e>>
    /\ entry_idx = 1
    /\ ev = NoEv
    /\ hist = NoHist

\* matched, topics = article_matches(entry, feature_patterns)
Match ==
    /\ pc = "match"
    /\ LET m == article_matches(CurEntry, feature_patterns)
       IN ev' = [NoEv EXCEPT !.kind = "match", !.evaluated = TRUE,
                             !.matched = m.matched, !.topics = m.topics]
    /\ pc' = "matched"
    /\ UNCHANGED <<env, now, cycle, seen_file, seen, feeds, features, feature_patterns,
                   use_slack, use_generic, apply_lookback, lookback_threshold, feed_idx,
                   entries, entry_idx, hist>>

MatchNext == Match

MatchSpec == MatchInit /\ [][MatchNext]_vars

----------------------------------------------------------------------------
(* Properties *)

\* the step taken is a pass over an entry
EntryStep == pc = "entry" /\ ev'.kind = "entry"

\* the last step was a pass over an entry that reached the dispatcher
Dispatched == ev.kind = "entry" /\ ev.matched

Attempts(e) == e.slack_attempts + e.generic_attempts

\* C1: the identifier of a matched entry is added to the seen set only in a step in
\* which a sink accepted its notification, and every identifier of the seen set was
\* loaded from the ledger, held back by the lookback gate, found to match no topic,
\* or accepted by a sink.
C1_NoLostNotifications ==
    /\ [](seen \subseteq (hist.loaded \cup hist.suppressed \cup hist.nonmatch
                          \cup hist.delivered))
    /\ [][(EntryStep /\ ev'.matched /\ seen' # seen) => (ev'.slack_ok \/ ev'.generic_ok)]_vars

C1_Witness ==
    /\ Dispatched
    /\ ev.guid \in seen
    /\ ev.guid \in hist.delivered
    /\ hist.suppressed # {}
    /\ hist.nonmatch # {}

\* C2: with both sinks enabled, the identifier of a matched entry is in the seen set
\* after the step when exactly one sink failed, and is not when both failed.
C2_PartialDelivery ==
    (Dispatched /\ use_slack /\ use_generic) =>
        /\ (ev.slack_ok # ev.generic_ok) => ev.guid \in seen
        /\ (~ev.slack_ok /\ ~ev.generic_ok) => ev.guid \notin seen

C2_Witness ==
    /\ Dispatched /\ use_slack /\ use_generic
    /\ ev.slack_ok /\ ~ev.generic_ok
    /\ ev.guid \in seen

\* C3: an entry whose identifier is already in the seen set is passed over: no topic
\* matching, no canonicalisation, no attempt on any sink, and the seen set unchanged.
C3_DedupIdempotent ==
    [][(pc = "entry" /\ Guid(CurEntry) \in seen) =>
          /\ ev'.kind = "entry"
          /\ ~ev'.evaluated
          /\ ~ev'.canon
          /\ Attempts(ev') = 0
          /\ seen' = seen
          /\ hist'.delivered = hist.delivered]_vars

C3_Witness ==
    /\ ev.kind = "entry"
    /\ ev.skipped
    /\ ev.guid \in hist.delivered
    /\ cycle = 1

\* C4: an entry whose delivery failed on every enabled sink in the previous cycle, and
\* that the feed returns again under the same config, has a delivery attempted when it
\* is examined, also when the seen set was still empty at the start of the cycle.
C4_RetryNextCycle ==
    [][(pc = "entry" /\ CurEntry \in hist.failed_prev /\ Guid(CurEntry) \notin seen) =>
          Attempts(ev') > 0]_vars

\* C5: the seen set only grows, and each save writes a superset of the previous one.
C5_SeenMonotone ==
    [][/\ seen \subseteq seen'
       /\ (ev'.kind = "saved" /\ hist.n_saves > 0) => hist.saved \subseteq load_seen(seen_file')]_vars

C5_Witness ==
    /\ ev.kind = "saved"
    /\ hist.n_saves = 2
    /\ Cardinality(seen) >= 2

\* the cutoff of the cycle, from the clock at the start of the cycle
Cutoff == now - INITIAL_LOOKBACK_DAYS * DaySeconds

\* the entry has no published or updated time, or one before the cutoff
OutsideWindow(e) ==
    LET p == IF "published_parsed" \in e.keys THEN e.published_parsed ELSE NoTs
        u == IF "updated_parsed" \in e.keys THEN e.updated_parsed ELSE NoTs
    IN (p = NoTs /\ u = NoTs) \/ (p # NoTs /\ p < Cutoff) \/ (p = NoTs /\ u < Cutoff)

Unseen(e) == Truthy(Guid(e)) /\ Guid(e) \notin seen

\* C6: in a cycle that started with an empty seen set, an unseen entry with no
\* timestamp or one before the cutoff is added to the seen set, not matched and not
\* delivered; any other unseen entry goes to topic matching.
C6_ColdStartDecision ==
    [][(pc = "entry" /\ hist.cold /\ Unseen(CurEntry)) =>
          IF OutsideWindow(CurEntry)
          THEN /\ Guid(CurEntry) \in seen'
               /\ ~ev'.evaluated
               /\ Attempts(ev') = 0
          ELSE /\ ev'.evaluated
               /\ ev'.matched = article_matches(CurEntry, feature_patterns).matched
               /\ (Guid(CurEntry) \in seen') = (~ev'.matched \/ ev'.slack_ok \/ ev'.generic_ok)]_vars

C6_Witness ==
    /\ ev.kind = "entry"
    /\ hist.cold
    /\ ev.gate = "pass"
    /\ ev.evaluated
    /\ {"d", "e"} \subseteq hist.suppressed

\* C7: in every cycle the gate is on exactly when the seen set was empty at the start
\* of the cycle, for every entry of the cycle that is not passed over.
C7_LookbackActivation ==
    /\ pc \in {"feed", "entry"} => (apply_lookback = hist.cold)
    /\ (ev.kind = "entry" /\ ~ev.skipped) => ((ev.gate # "off") = hist.cold)

C7_Witness ==
    /\ cycle = 1
    /\ hist.cold
    /\ seen # {}
    /\ ev.kind = "entry"
    /\ ev.gate \in {"notime", "old"}

\* C8: when load_config fails in the reload of a cycle, the feed list and the compiled
\* patterns stay those of the previous cycle, the cycle runs, and nothing changes them
\* during the cycle.
C8_StaleConfigOnError ==
    [][/\ ev'.kind = "reload_load_failed" =>
             (feeds' = feeds /\ feature_patterns' = feature_patterns /\ pc' = "feed")
       /\ pc \in {"feed", "entry"} => (feeds' = feeds /\ feature_patterns' = feature_patterns)]_vars

C8_Witness ==
    /\ ev.kind = "reload_load_failed"
    /\ cycle = 1
    /\ pc = "feed"
    /\ feeds = cfgB.feeds
    /\ feature_patterns = CompileAll(cfgB.features)

\* C9: an unseen entry that passes the gate and matches no topic is added to the seen
\* set with no delivery attempt, and an identifier consumed that way is never matched
\* or delivered again, whatever the config becomes.
C9_NonMatchConsumed ==
    [][/\ (pc = "entry" /\ Unseen(CurEntry)
              /\ Gate(apply_lookback, CurEntry, lookback_threshold) \in {"off", "pass"}
              /\ ~article_matches(CurEntry, feature_patterns).matched) =>
             (Guid(CurEntry) \in seen' /\ Attempts(ev') = 0)
       /\ (pc = "entry" /\ Guid(CurEntry) \in hist.nonmatch) =>
             (~ev'.evaluated /\ Attempts(ev') = 0)]_vars

C9_Witness ==
    /\ ev.kind = "entry"
    /\ ev.skipped
    /\ ev.guid = Guid(eC)
    /\ ev.guid \in hist.nonmatch
    /\ article_matches(eC, feature_patterns).matched

\* C10: for a matched entry each enabled sink gets exactly one attempt, whatever the
\* other sink did, and a disabled sink gets none.
C10_SinkIndependence ==
    Dispatched =>
        /\ ev.slack_attempts = (IF use_slack THEN 1 ELSE 0)
        /\ ev.generic_attempts = (IF use_generic THEN 1 ELSE 0)

C10_Witness ==
    /\ Dispatched /\ use_slack /\ use_generic
    /\ ~ev.slack_ok /\ ~ev.generic_ok
    /\ ev.slack_attempts = 1 /\ ev.generic_attempts = 1

\* the positions of a cycle, and of the loop
Polling == {"reload", "feed", "entry"}
InLoop == Polling \cup {"sleep"}

\* C11: once startup has succeeded the loop is left only by the interrupt; whatever
\* fails in a cycle, the cycle reaches the sleep, and the step that ends the sleep
\* starts another cycle or is the interrupt.
C11_LoopNeverDies ==
    /\ [][(pc \in InLoop) => (pc' \in (InLoop \cup {"done"}))]_vars
    /\ [][(pc \in InLoop /\ pc' \notin InLoop) => ev'.kind = "interrupted"]_vars
    /\ [][(pc = "sleep") => (pc' \in {"reload", "done"})]_vars
    /\ (pc \in Polling) ~> (pc = "sleep")

C11_Witness ==
    /\ pc = "reload"
    /\ cycle = 1
    /\ seen_file = CorruptFile
    /\ hist.n_saves = 0
    /\ hist.failed_cur # {}

\* C12: the poll loop is entered only when every sink enabled by its flag has its
\* settings (the chat sink a webhook URL or a bot token, the bot token a channel id,
\* the generic sink a URL) and some sink is enabled.
C12_StartupValidation ==
    (pc \in (InLoop \cup {"done"})) =>
        /\ env.USE_SLACK_WEBHOOK => (env.SLACK_WEBHOOK_URL \/ env.SLACK_BOT_TOKEN)
        /\ (env.USE_SLACK_WEBHOOK /\ env.SLACK_BOT_TOKEN) => env.SLACK_CHANNEL_ID
        /\ env.USE_GENERIC_WEBHOOK => env.GENERIC_WEBHOOK_URL
        /\ env.USE_SLACK_WEBHOOK \/ env.USE_GENERIC_WEBHOOK

\* C13 as stated: an entry with neither id nor link is never matched, never delivered,
\* and its identifier is added to the seen set.
C13_NoIdMarkedSeen ==
    [][(pc = "entry" /\ ~Truthy(Guid(CurEntry))) =>
          /\ ~ev'.evaluated
          /\ Attempts(ev') = 0
          /\ Guid(CurEntry) \in seen']_vars

\* C13: an entry with neither id nor link is passed over in every cycle: no topic
\* matching, no canonicalisation, no attempt on any sink; nothing is added to the seen
\* set for it.
C13_NoIdPassedOver ==
    [][(pc = "entry" /\ ~Truthy(Guid(CurEntry))) =>
          /\ ev'.kind = "entry"
          /\ ev'.skipped
          /\ ~ev'.evaluated
          /\ ~ev'.canon
          /\ Attempts(ev') = 0
          /\ seen' = seen
          /\ hist'.delivered = hist.delivered]_vars

C13_Witness ==
    /\ ev.kind = "entry"
    /\ ev.skipped
    /\ ~Truthy(ev.guid)
    /\ cycle = 1
    /\ seen # {}

\* C14: for every matched entry original_link returns a link: the decoded URL when the
\* decoding call was made and reported success, the entry's own link when the link is
\* not a redirect link, when the call reported failure and when it raised; and the
\* entry goes on to every enabled sink whatever the decoding call did.
C14_CanonicalizationNeverBlocks ==
    [][(EntryStep /\ ev'.matched) =>
          LET link == Get(CurEntry, "link", "")
          IN /\ ev'.canon
             /\ (ev'.decode = "not_called") = (link \notin GoogleLinks)
             /\ ev'.link = (IF ev'.decode = "decoded" THEN DecodedUrl(link) ELSE link)
             /\ ev'.slack_attempts = (IF use_slack THEN 1 ELSE 0)
             /\ ev'.generic_attempts = (IF use_generic THEN 1 ELSE 0)
             /\ Attempts(ev') > 0]_vars

C14_Witness ==
    /\ Dispatched
    /\ ev.decode = "raised"
    /\ ev.link = "http://news.google.com/c"
    /\ Attempts(ev) > 0
    /\ ev.added

\* C15: what load_seen() returns after save_seen(S) is S, for every set S; from a
\* missing or unparseable ledger file load_seen() returns the empty set.
C15_LedgerRoundTrip ==
    (pc = "ledger_loaded") =>
        /\ hist.n_saves = 1 => seen = hist.saved
        /\ (hist.n_saves = 0 /\ seen_file \in {NoFile, CorruptFile}) => seen = {}

C15_Witness ==
    /\ pc = "ledger_loaded"
    /\ hist.n_saves = 1
    /\ Cardinality(hist.saved) >= 3
    /\ seen = hist.saved

\* the topics of the config that have a pattern found in the text made of the
\* entry's title, a space and its summary, a missing field being empty
TopicsFound(e, patterns) ==
    LET text == (IF "title" \in e.keys THEN e.title ELSE <<>>) \o <<" ">>
                \o (IF "summary" \in e.keys THEN e.summary ELSE <<>>)
    IN {t \in Range(patterns) : \E p \in Range(t.patterns) : Search(p, text)}

\* the same topics in the opposite order
Reversed(s) == [i \in 1..Len(s) |-> s[Len(s) + 1 - i]]

\* C16: article_matches returns the topics with a pattern found in the text of the
\* entry, each once; it reports a match exactly when there is one; and it returns
\* the same set when the topics are evaluated in the opposite order.
C16_TopicMatching ==
    (pc = "matched") =>
        LET found == {t.topic : t \in TopicsFound(CurEntry, feature_patterns)}
        IN /\ Range(ev.topics) = found
           /\ Len(ev.topics) = Cardinality(found)
           /\ ev.matched = (found # {})
           /\ Range(article_matches(CurEntry, Reversed(feature_patterns)).topics) = found

C16_Witness ==
    /\ pc = "matched"
    /\ CurEntry = eD
    /\ Len(feature_patterns) = 3
    /\ feature_patterns[1].topic = "none"
    /\ Range(ev.topics) = {"both", "alpr"}
    /\ ev.matched

\* C17: a failed fetch changes nothing but the position in the feed list, which moves
\* to the next feed; within a cycle the position never moves back, so no feed is
\* fetched twice; while feeds are left the next step is a fetch (or the cycle's
\* abort), and after the last feed the next step is the save of the ledger.
C17_FetchFailureIsolation ==
    /\ [][ev'.kind = "fetch_failed" =>
             /\ pc' = "feed"
             /\ feed_idx' = feed_idx + 1
             /\ seen' = seen
             /\ hist' = hist
             /\ feeds' = feeds]_vars
    /\ [][(pc \in {"feed", "entry"} /\ pc' \in {"feed", "entry"}) =>
             /\ feed_idx' \in {feed_idx, feed_idx + 1}
             /\ (pc = "feed" => (feed_idx' = feed_idx + 1 \/ pc' = "entry"))]_vars
    /\ [][(pc = "feed" /\ feed_idx <= Len(feeds)) =>
             ev'.kind \in {"fetch", "fetch_failed", "aborted"}]_vars
    /\ [][(pc = "feed" /\ feed_idx > Len(feeds)) =>
             ev'.kind \in {"saved", "save_failed"}]_vars

C17_Witness ==
    /\ ev.kind = "fetch_failed"
    /\ pc = "feed"
    /\ feed_idx = 2
    /\ Len(feeds) = 2
    /\ cycle = 1
    /\ seen # {}

\* C18: the ledger is written only after the last feed of the cycle, at most once
\* in each cycle; in the sleep after a cycle that ended with the save the file holds
\* the seen set; and in the loop the file never holds an identifier the seen set
\* does not.
C18_LedgerPersistence ==
    /\ [][seen_file' # seen_file =>
             /\ pc = "feed" /\ feed_idx > Len(feeds)
             /\ pc' = "sleep"
             /\ ev'.kind \in {"saved", "save_failed"}]_vars
    /\ [][hist'.n_saves # hist.n_saves =>
             /\ ev'.kind = "saved"
             /\ hist'.n_saves = hist.n_saves + 1
             /\ pc = "feed" /\ feed_idx > Len(feeds)
             /\ pc' = "sleep"]_vars
    /\ [](hist.n_saves <= cycle + 1)
    /\ []((pc = "sleep" /\ ev.kind = "saved") => load_seen(seen_file) = seen)
    /\ []((pc \in (InLoop \cup {"done"})) => load_seen(seen_file) \subseteq seen)

C18_Witness ==
    /\ pc = "sleep"
    /\ ev.kind = "saved"
    /\ cycle = 1
    /\ hist.n_saves = 1
    /\ Cardinality(seen) >= 3
    /\ load_seen(seen_file) = seen

\* C19: a reload that fails, at load_config or at the compilation of a pattern,
\* changes neither the feed list nor the compiled patterns.
C19_AtomicSwap ==
    [][ev'.kind \in {"reload_load_failed", "reload_compile_failed"} =>
          (feeds' = feeds /\ feature_patterns' = feature_patterns)]_vars

\* C20: a sink accepts a notification only for an identifier for which no sink has
\* accepted one before in the run, and every identifier a sink has accepted is in
\* the seen set, also after failed and aborted cycles.
C20_AtMostOnceDelivery ==
    /\ [][(EntryStep /\ (ev'.slack_ok \/ ev'.generic_ok)) =>
             ev'.guid \notin hist.delivered]_vars
    /\ []((pc \in (InLoop \cup {"done"})) => hist.delivered \subseteq seen)

C20_Witness ==
    /\ ev.kind = "entry"
    /\ ev.skipped
    /\ ev.guid \in hist.delivered
    /\ cycle = 1
    /\ hist.n_saves = 0
    /\ ev.guid \notin load_seen(seen_file)

====
